---- MODULE Spec2Model ----
(***************************************************************************)
(* Model of the two file-system maintenance tools of this repository:      *)
(*   - duplicates_remove_v6.py  (clean_filename, find_and_remove_duplicates)*)
(*   - clean_empty_dir.py       (delete_empty_dirs_recursive, cli)         *)
(*   - clean_empty_dir_deepseek.py (delete_empty_recursive, cli)           *)
(* A Python str is a sequence of one-character strings; indices in the     *)
(* string helpers are 0-based as in Python, -1 meaning "not found".        *)
(***************************************************************************)
EXTENDS Integers, Sequences, FiniteSets, TLC

\* ------------------------------------------------------------------ bounds
\* longest file name, in tokens, given to clean_filename
MaxTokens == 4

\* most files in the tree scanned by the duplicate tool
MaxFiles == 3

\* most directories in the tree given to the empty-directory pruner
MaxDirs == 4

\* calls of clean_filename chained on one file name
MaxCalls == 2

VARIABLES
  tool,            \* which program runs: "dup", "prune", "deepseek", "clean"
  pc,              \* position of the run
  \* ---- the file system
  dirs,            \* existing directories (0 is the root given to the tool)
  parent,          \* parent directory of every directory but the root
  files,           \* existing files, each <<directory, index into Names>>
  ctime,           \* st_ctime of every file
  unlistable,      \* directories whose listing raises PermissionError
  unremovable,     \* directories whose rmdir / send2trash raises OSError
  unreadable,      \* files whose stat() raises
  undeletable,     \* files whose unlink() raises PermissionError
  scan_reverse,    \* enumeration order of directory listings
  dirs0, files0,   \* the tree as it was when the tool started
  external,        \* files removed by another process during the run
  root_kind,       \* what the path given to the tool is: "dir", "missing", "file"
  \* ---- arguments
  dry_run, auto_confirm, detect_copy, recursive, force_delete, pattern,
  \* ---- locals of find_and_remove_duplicates
  all_files, file_groups, files_to_remove, idx, report, confirmation,
  deleted_size,
  \* ---- locals of the pruners
  walk, pos, deleted_count, error_count, attempts,
  \* ---- clean_filename applied to a drawn file name
  cf_filename, cf_pattern, cf_detect_copy, cf_results

fsVars == <<dirs, parent, files, ctime, unlistable, unremovable, unreadable,
            undeletable, scan_reverse, dirs0, files0, external, root_kind>>

argVars == <<dry_run, auto_confirm, detect_copy, recursive, force_delete, pattern>>

dupVars == <<all_files, file_groups, files_to_remove, idx, report, confirmation,
             deleted_size>>

pruneVars == <<walk, pos, error_count, attempts>>

cfVars == <<cf_filename, cf_pattern, cf_detect_copy, cf_results>>

vars == <<tool, pc, fsVars, argVars, dupVars, pruneVars, deleted_count, cfVars>>

\* ------------------------------------------------------- Python str helpers
\* s[a:b] for 0 <= a, b <= len(s)
Slice(s, a, b) == SubSeq(s, a + 1, b)

\* str.lower(), on the letters of the model's alphabet
LowerChar(c) ==
  CASE c = "A" -> "a" [] c = "C" -> "c" [] c = "S" -> "s"
    [] c = "Y" -> "y" [] c = "E" -> "e" [] OTHER -> c

lower(s) == [i \in 1..Len(s) |-> LowerChar(s[i])]

IsSpace(c) == c = " "

IsDigit(c) == c \in {"1", "2"}

\* str.strip(): drop leading and trailing whitespace
strip(s) ==
  IF \A i \in 1..Len(s) : IsSpace(s[i]) THEN <<>>
  ELSE LET a == CHOOSE i \in 1..Len(s) :
                  ~IsSpace(s[i]) /\ \A k \in 1..(i - 1) : IsSpace(s[k])
           b == CHOOSE i \in 1..Len(s) :
                  ~IsSpace(s[i]) /\ \A k \in (i + 1)..Len(s) : IsSpace(s[k])
       IN SubSeq(s, a, b)

\* sub occurs in s at 0-based index i
OccursAt(s, sub, i) ==
  /\ i >= 0
  /\ i + Len(sub) <= Len(s)
  /\ Slice(s, i, i + Len(sub)) = sub

Max(S) == CHOOSE x \in S : \A y \in S : y <= x

Min(S) == CHOOSE x \in S : \A y \in S : x <= y

\* the occurrences of sub in s
Occurrences(s, sub) == {i \in 0..Len(s) : OccursAt(s, sub, i)}

MaxOrNone(occ) == IF occ = {} THEN -1 ELSE Max(occ)

MinOrNone(occ) == IF occ = {} THEN -1 ELSE Min(occ)

\* str.rfind(sub): highest index of an occurrence, -1 if none
rfind(s, sub) == MaxOrNone(Occurrences(s, sub))

\* str.find(sub): lowest index of an occurrence, -1 if none
find(s, sub) == MinOrNone(Occurrences(s, sub))

\* ------------------------------------------------------------ pathlib.Path
\* Path(filename).name for a filename without separators: "." and "" have
\* no name component
PathName(filename) == IF filename = <<".">> THEN <<>> ELSE filename

\* the last dot of a name starts its suffix unless it is first or last
HasSuffixAt(name, i) == 0 < i /\ i < Len(name) - 1

SuffixFrom(name, i) ==
  IF HasSuffixAt(name, i) THEN Slice(name, i, Len(name)) ELSE <<>>

StemUpTo(name, i) == IF HasSuffixAt(name, i) THEN Slice(name, 0, i) ELSE name

\* PurePath.suffix
PathSuffix(filename) ==
  SuffixFrom(PathName(filename), rfind(PathName(filename), <<".">>))

\* PurePath.stem
PathStem(filename) ==
  StemUpTo(PathName(filename), rfind(PathName(filename), <<".">>))

\* ---------------------------------------------------- regular expressions
\* the pattern settings of the model: the default r'\s*\(\d+\)', the custom
\* literal " Copy" of the command-line help, and '.*'
PatDefault == "\\s*\\(\\d+\\)"

PatCopyWord == " Copy"

\* the characters of the literal pattern
CopyWord == <<" ", "C", "o", "p", "y">>

PatAll == ".*"

Patterns == {PatDefault, PatCopyWord, PatAll}

\* a pattern that re.compile rejects: an unterminated group
PatInvalid == "("

\* re.compile(pattern) does not raise re.error
compiles(pat) == pat # PatInvalid

NoMatch == <<-1, -1>>

\* end of the run of whitespace that starts at index i
SpaceRunEnd(s, i) ==
  CHOOSE j \in i..Len(s) :
    /\ \A k \in i..(j - 1) : IsSpace(s[k + 1])
    /\ (j = Len(s) \/ ~IsSpace(s[j + 1]))

\* end of the run of digits that starts at index i
DigitRunEnd(s, i) ==
  CHOOSE j \in i..Len(s) :
    /\ \A k \in i..(j - 1) : IsDigit(s[k + 1])
    /\ (j = Len(s) \/ ~IsDigit(s[j + 1]))

\* \d+\) from index j, where k is the end of the digits: the end, or -1
DigitsClose(s, j, k) ==
  IF k > j /\ k < Len(s) /\ s[k + 1] = ")" THEN k + 1 ELSE -1

\* \(\d+\) from index j, the end of the whitespace: the end, or -1
ParenFrom(s, j) ==
  IF j < Len(s) /\ s[j + 1] = "("
    THEN DigitsClose(s, j + 1, DigitRunEnd(s, j + 1))
    ELSE -1

\* end index of a match of \s*\(\d+\) anchored at index i, -1 if none
DefaultMatchEnd(s, i) == ParenFrom(s, SpaceRunEnd(s, i))

\* the span of the match that starts at the least index of starts
FirstSpan(s, starts) ==
  IF starts = {} THEN <<-1, -1>>
  ELSE <<Min(starts), DefaultMatchEnd(s, Min(starts))>>

\* the span of a literal found at index i
LiteralSpan(i, n) == IF i = -1 THEN <<-1, -1>> ELSE <<i, i + n>>

\* pattern_compiled.search(s).span(): the leftmost match, NoMatch for None
search(pat, s) ==
  CASE pat = PatDefault ->
         FirstSpan(s, {i \in 0..Len(s) : DefaultMatchEnd(s, i) # -1})
    [] pat = PatCopyWord ->
         LiteralSpan(find(s, CopyWord), Len(CopyWord))
    [] OTHER -> <<0, Len(s)>>

\* ------------------------------------------------------- clean_filename
DotCopy == <<".", "c", "o", "p", "y">>

SpaceCopy == <<" ", "-", " ", "c", "o", "p", "y">>

\* faulty variant: the match is replaced by a space and nothing is stripped
RemoveSpan_blanked(cleaned_stem, match) ==
  IF match # NoMatch
    THEN Slice(cleaned_stem, 0, match[1]) \o <<" ">>
         \o Slice(cleaned_stem, match[2], Len(cleaned_stem))
    ELSE cleaned_stem

\* cleaned_stem[:start] + cleaned_stem[end:], stripped, when there is a match
RemoveSpan(cleaned_stem, match) ==
  IF match # NoMatch
    THEN strip(Slice(cleaned_stem, 0, match[1])
               \o Slice(cleaned_stem, match[2], Len(cleaned_stem)))
    ELSE cleaned_stem

\* step 1 of an iteration: remove the first match of the pattern, strip
RegexStep(cleaned_stem, pat) == RemoveSpan(cleaned_stem, search(pat, cleaned_stem))

\* faulty variant: ".copy" is cut whenever it is found, " - copy" otherwise
CopyCut_dot_first(cleaned_stem, dot_copy_index, space_copy_index) ==
  IF dot_copy_index # -1
    THEN strip(Slice(cleaned_stem, 0, dot_copy_index))
    ELSE IF space_copy_index # -1
           THEN strip(Slice(cleaned_stem, 0, space_copy_index))
           ELSE cleaned_stem

\* truncate at the later of the two indices, strip
CopyCut(cleaned_stem, dot_copy_index, space_copy_index) ==
  IF space_copy_index > dot_copy_index
    THEN strip(Slice(cleaned_stem, 0, space_copy_index))
    ELSE IF dot_copy_index # -1
           THEN strip(Slice(cleaned_stem, 0, dot_copy_index))
           ELSE cleaned_stem

\* step 2 of an iteration: truncate at the later of the last ".copy" and the
\* last " - copy" (case-insensitive), strip
CopyStep(cleaned_stem, detect) ==
  IF detect
    THEN CopyCut(cleaned_stem, rfind(lower(cleaned_stem), DotCopy),
                 rfind(lower(cleaned_stem), SpaceCopy))
    ELSE cleaned_stem

\* one pass of the while loop
CleanPass(cleaned_stem, pat, detect) ==
  CopyStep(RegexStep(cleaned_stem, pat), detect)

RECURSIVE CleanLoop(_, _, _)
\* if cleaned_stem == original_cleaned_stem: break
CleanUntilSame(original_cleaned_stem, cleaned_stem, pat, detect) ==
  IF cleaned_stem = original_cleaned_stem THEN cleaned_stem
  ELSE CleanLoop(cleaned_stem, pat, detect)

\* the while True loop: repeat until a pass changes nothing
CleanLoop(cleaned_stem, pat, detect) ==
  CleanUntilSame(cleaned_stem, CleanPass(cleaned_stem, pat, detect), pat, detect)

clean_filename(filename, pat, detect) ==
  CleanLoop(PathStem(filename), pat, detect) \o PathSuffix(filename)

\* ------------------------------------------- clean_filename on drawn names
\* file names are drawn as concatenations of these pieces
Tokens ==
  {<<"a">>, <<" ">>, <<".">>, <<"(", "1", ")">>, DotCopy,
   <<" ", "-", " ", "C", "o", "p", "y">>}

RECURSIVE Flatten(_)
Flatten(ts) == IF ts = <<>> THEN <<>> ELSE Head(ts) \o Flatten(Tail(ts))

\* the names a directory listing can return: not empty, not "." or ".."
FileNames ==
  {Flatten(ts) : ts \in UNION {[1..n -> Tokens] : n \in 1..MaxTokens}}
    \ {<<".">>, <<".", ".">>}

\* no file system and no tool run: the state of the variables that a run of
\* clean_filename alone does not use
NoTree ==
  /\ dirs = {} /\ parent = <<>> /\ files = {} /\ ctime = <<>>
  /\ unlistable = {} /\ unremovable = {} /\ unreadable = {} /\ undeletable = {}
  /\ scan_reverse = FALSE /\ dirs0 = {} /\ files0 = {} /\ external = {}
  /\ root_kind = "dir"

NoArgs ==
  /\ dry_run = FALSE /\ auto_confirm = FALSE /\ detect_copy = FALSE
  /\ recursive = FALSE /\ force_delete = FALSE /\ pattern = PatDefault

\* the value of confirmation before any prompt
Unasked == <<"unasked">>

NoDupLocals ==
  /\ all_files = <<>> /\ file_groups = <<>> /\ files_to_remove = <<>>
  /\ idx = 0 /\ report = <<>> /\ confirmation = Unasked /\ deleted_size = 0

NoCounts == deleted_count = 0 /\ error_count = 0

NoWalk == walk = <<>> /\ pos = 0

NoLocals == NoDupLocals /\ NoCounts /\ NoWalk /\ attempts = <<>>

NoClean ==
  /\ cf_filename = <<>> /\ cf_pattern = PatDefault /\ cf_detect_copy = FALSE
  /\ cf_results = <<>>

InitClean ==
  /\ tool = "clean"
  /\ pc = "call"
  /\ cf_filename \in FileNames
  /\ cf_pattern \in Patterns
  /\ cf_detect_copy \in BOOLEAN
  /\ cf_results = <<>>
  /\ NoTree /\ NoArgs /\ NoLocals

\* clean_filename called on the drawn name, then on its own result
CleanCall ==
  /\ tool = "clean"
  /\ Len(cf_results) < MaxCalls
  /\ cf_results' =
       Append(cf_results,
              clean_filename(IF cf_results = <<>> THEN cf_filename
                             ELSE cf_results[Len(cf_results)],
                             cf_pattern, cf_detect_copy))
  /\ UNCHANGED <<tool, pc, fsVars, argVars, dupVars, pruneVars, deleted_count,
                 cf_filename, cf_pattern, cf_detect_copy>>

NextClean == CleanCall

SpecClean == InitClean /\ [][NextClean]_vars

\* ---- the while loop of clean_filename, one pass per step: cf_results holds
\* the values cleaned_stem has at the top of the loop, the stem first
InitLoop ==
  /\ tool = "loop"
  /\ pc = "while"
  /\ cf_filename \in FileNames
  /\ cf_pattern \in Patterns
  /\ cf_detect_copy \in BOOLEAN
  /\ cf_results = <<PathStem(cf_filename)>>
  /\ NoTree /\ NoArgs /\ NoLocals

\* the last value of cleaned_stem
Last(q) == q[Len(q)]

\* faulty variant: the loop is left after the first pass
pass_end_after_one(original_cleaned_stem, cleaned_stem) ==
  /\ cf_results' = Append(cf_results, cleaned_stem)
  /\ pc' = "return"

\* the end of a pass: break when the pass changed nothing, else loop
pass_end(original_cleaned_stem, cleaned_stem) ==
  /\ cf_results' = Append(cf_results, cleaned_stem)
  /\ pc' = IF cleaned_stem = original_cleaned_stem THEN "return" ELSE "while"

\* one pass of the loop: the regex step, the copy step, the test for a change
LoopPass ==
  /\ tool = "loop" /\ pc = "while"
  /\ pass_end(Last(cf_results),
              CleanPass(Last(cf_results), cf_pattern, cf_detect_copy))
  /\ UNCHANGED <<tool, fsVars, argVars, dupVars, pruneVars, deleted_count,
                 cf_filename, cf_pattern, cf_detect_copy>>

NextLoop == LoopPass

SpecLoop == InitLoop /\ [][NextLoop]_vars

\* ------------------------------------------------------- the file system
\* the names files of the duplicate tool's tree can have
Names ==
  << <<"a", ".", "t">>,
     <<"A", " ", "(", "1", ")", ".", "t">>,
     <<"a", ".", "c", "o", "p", "y", ".", "t">> >>

\* the duplicate tool's tree: the root r and its subdirectories r/s and r/S
DirStr(d) ==
  CASE d = 0 -> <<"r">>
    [] d = 1 -> <<"r", "/", "s">>
    [] OTHER -> <<"r", "/", "S">>

\* the paths a file of that tree can have, in the order a listing returns them
AllPaths == << <<0, 1>>, <<0, 2>>, <<0, 3>>, <<1, 1>>, <<2, 1>> >>

\* creation timestamps
Times == {1, 2}

\* str(file_path)
PathStr(f) == DirStr(f[1]) \o <<"/">> \o Names[f[2]]

\* stat().st_size of a file
st_size(f) == Len(Names[f[2]])

Range(q) == {q[i] : i \in 1..Len(q)}

Reverse(q) == [i \in 1..Len(q) |-> q[Len(q) + 1 - i]]

\* list(d.iterdir()): the entries of a directory, subdirectories and files
Entries(d) ==
  {<<"dir", c>> : c \in {x \in dirs \ {0} : parent[x] = d}}
    \cup {<<"file", f>> : f \in {x \in files : x[1] = d}}

RECURSIVE Ancestors(_)
Ancestors(d) == IF d = 0 THEN {} ELSE {parent[d]} \cup Ancestors(parent[d])

\* the directories at or below d
Subtree(d) == {x \in dirs0 : x = d \/ d \in Ancestors(x)}

\* d.stat() succeeds
StatOK(f) == f \notin unreadable

\* at most one item of the tree raises an I/O error
OneFault(ds, fs) ==
  /\ unlistable \in {{}} \cup {{d} : d \in ds}
  /\ unremovable \in {{}} \cup {{d} : d \in ds}
  /\ unreadable \in {{}} \cup {{f} : f \in fs}
  /\ undeletable \in {{}} \cup {{f} : f \in fs}
  /\ Cardinality(unlistable) + Cardinality(unremovable)
       + Cardinality(unreadable) + Cardinality(undeletable) <= 1

\* --------------------------------------------------------------- sorting
\* the k-th smallest element of a set of integers
NthOf(S, k) == CHOOSE i \in S : Cardinality({j \in S : j < i}) = k - 1

\* the place of q[i] after a stable sort by key
SortedPlace(q, key, i) ==
  1 + Cardinality({j \in 1..Len(q) :
        key[q[j]] < key[q[i]] \/ (key[q[j]] = key[q[i]] /\ j < i)})

\* list.sort(key=...): stable; key maps every element of q to an integer
StableSort(q, key) ==
  [k \in 1..Len(q) |-> q[CHOOSE i \in 1..Len(q) : SortedPlace(q, key, i) = k]]

\* ord() of the characters of the model's alphabet
Ord(c) ==
  CASE c = " " -> 32 [] c = "(" -> 40 [] c = ")" -> 41 [] c = "-" -> 45
    [] c = "." -> 46 [] c = "/" -> 47 [] c = "1" -> 49 [] c = "2" -> 50
    [] c = "A" -> 65 [] c = "C" -> 67 [] c = "S" -> 83 [] c = "a" -> 97
    [] c = "c" -> 99 [] c = "o" -> 111 [] c = "p" -> 112 [] c = "r" -> 114
    [] c = "s" -> 115 [] c = "t" -> 116 [] OTHER -> 121

\* a < b on str
StrLess(a, b) ==
  \E k \in 1..(Len(b)) :
    /\ \A i \in 1..(k - 1) : i <= Len(a) /\ a[i] = b[i]
    /\ (k > Len(a) \/ Ord(a[k]) < Ord(b[k]))

\* ------------------------------------------- find_and_remove_duplicates
\* directory.rglob('*') or directory.iterdir(), files only
gather(rec) ==
  SelectSeq(IF scan_reverse THEN Reverse(AllPaths) ELSE AllPaths,
            LAMBDA f : f \in files /\ (rec \/ f[1] = 0))

\* str(parent / cleaned_name): an empty or "." component adds nothing
joinpath(dir, cleaned_name) ==
  IF cleaned_name \in {<<>>, <<".">>} THEN dir
  ELSE dir \o <<"/">> \o cleaned_name

\* str(file_path.parent / cleaned_name).lower()
group_key(f, pat, detect) ==
  lower(joinpath(DirStr(f[1]), clean_filename(Names[f[2]], pat, detect)))

\* group_key of every path of the tree, tabulated
GroupKeys ==
  [f \in Range(AllPaths), pat \in Patterns, detect \in BOOLEAN |->
     group_key(f, pat, detect)]

\* the group key of every gathered file
keys_of(all, pat, detect) == [i \in 1..Len(all) |-> GroupKeys[all[i], pat, detect]]

\* the files under one key, in the order they were gathered
files_of_key(all, keys, k) ==
  [m \in 1..Cardinality({i \in 1..Len(all) : keys[i] = k}) |->
     all[NthOf({i \in 1..Len(all) : keys[i] = k}, m)]]

\* the positions at which a key is first inserted into the dict
first_inserts(keys) ==
  {i \in 1..Len(keys) : \A j \in 1..(i - 1) : keys[j] # keys[i]}

\* the values of the dict in insertion order
dict_values(all, keys, firsts) ==
  [g \in 1..Cardinality(firsts) |-> files_of_key(all, keys, keys[NthOf(firsts, g)])]

dict_of(all, keys) == dict_values(all, keys, first_inserts(keys))

\* the dict file_groups, as the list of its values in insertion order
group_files(all, pat, detect) == dict_of(all, keys_of(all, pat, detect))

\* faulty variant: a member whose stat() fails is not dropped
files_with_stat_kept(group) == group

\* the members of a group whose stat() succeeds
files_with_stat(group) == SelectSeq(group, StatOK)

\* faulty variant: the group is left in discovery order
sort_by_ctime_skipped(group) == group

\* files_with_stat.sort(key=lambda item: item[1].st_ctime)
sort_by_ctime(group) == StableSort(group, ctime)

\* a group of more than one file is kept if more than one member can be read
is_duplicate_group(group) == Len(group) > 1 /\ Len(files_with_stat(group)) > 1

sorted_groups(kept) ==
  [k \in 1..Len(kept) |-> sort_by_ctime(files_with_stat(kept[k]))]

\* groups_with_duplicates, as the list of its values in insertion order
groups_with_duplicates(groups) == sorted_groups(SelectSeq(groups, is_duplicate_group))

\* keep_file = files[0]
keep_file(group) == group[1]

\* duplicates_in_group = files[1:]
duplicates_in_group(group) == Tail(group)

with_sizes(dups) == [i \in 1..Len(dups) |-> <<dups[i], st_size(dups[i])>>]

\* the (file, size) pairs one group adds to files_to_remove
group_removals(group) == with_sizes(SelectSeq(duplicates_in_group(group), StatOK))

\* the sort key str(path).lower() of every path, as its rank among them
PathRank ==
  [f \in Range(AllPaths) |->
     Cardinality({g \in Range(AllPaths) :
                    StrLess(lower(PathStr(g)), lower(PathStr(f)))})]

\* files_to_remove.sort(key=lambda item: str(item[0]).lower())
sort_by_path(q) ==
  StableSort(q, [x \in Range(q) |-> PathRank[x[1]]])

\* files_to_remove after the preview sort
removals(groups) ==
  sort_by_path(Flatten([k \in 1..Len(groups) |-> group_removals(groups[k])]))

\* what the path given to find_and_remove_duplicates can be
RootKinds == {"dir", "missing", "file"}

InitDup ==
  /\ tool = "dup"
  /\ pc = "start"
  /\ root_kind \in RootKinds
  /\ dirs = IF root_kind = "dir" THEN {0, 1, 2} ELSE {}
  /\ parent = [d \in dirs \ {0} |-> 0]
  /\ files \in {S \in SUBSET Range(AllPaths) :
                  /\ Cardinality(S) <= MaxFiles
                  /\ root_kind # "dir" => S = {}}
  /\ ctime \in [files -> Times]
  /\ OneFault({}, files)
  /\ scan_reverse \in BOOLEAN
  /\ dirs0 = dirs /\ files0 = files /\ external = {}
  /\ NoArgs /\ NoLocals /\ NoClean

\* faulty variant: the dry run does not return before the deletion
scan_result_no_return(dr, ac, dc, rec, all, groups, rem) ==
  /\ dry_run' = dr /\ auto_confirm' = ac
  /\ detect_copy' = dc /\ recursive' = rec
  /\ all_files' = all
  /\ file_groups' = groups
  /\ files_to_remove' = rem
  /\ idx' = 1
  /\ pc' = IF groups = <<>> \/ rem = <<>> THEN "done"
           ELSE IF ac THEN "deleting" ELSE "confirm"

\* the end of the preview: return on nothing to do or on dry run, else go on
scan_result(dr, ac, dc, rec, all, groups, rem) ==
  /\ dry_run' = dr /\ auto_confirm' = ac
  /\ detect_copy' = dc /\ recursive' = rec
  /\ all_files' = all
  /\ file_groups' = groups
  /\ files_to_remove' = rem
  /\ idx' = 1
  /\ pc' = IF groups = <<>> \/ rem = <<>> \/ dr THEN "done"
           ELSE IF ac THEN "deleting" ELSE "confirm"

scan_groups(dr, ac, dc, rec, all, groups) ==
  scan_result(dr, ac, dc, rec, all, groups, removals(groups))

scan_files(dr, ac, dc, rec, pat, all) ==
  scan_groups(dr, ac, dc, rec, all,
              groups_with_duplicates(group_files(all, pat, dc)))

\* faulty variant: only the pattern is validated
setup_error_of_pattern(kind, pat) == ~compiles(pat)

\* the checks before the scan: the directory exists, is a directory, and the
\* pattern compiles
setup_error(kind, pat) == kind # "dir" \/ ~compiles(pat)

\* the error is printed and the function returns
setup_return(dr, ac, dc, rec) ==
  /\ dry_run' = dr /\ auto_confirm' = ac
  /\ detect_copy' = dc /\ recursive' = rec
  /\ pc' = "setup_error"
  /\ UNCHANGED <<all_files, file_groups, files_to_remove, idx>>

\* from the call to the end of the preview: validate, gather, group, filter,
\* sort, list the files to remove
DupScan ==
  /\ tool = "dup" /\ pc = "start"
  /\ \E dr \in BOOLEAN, ac \in BOOLEAN, dc \in BOOLEAN, rec \in BOOLEAN,
        pat \in Patterns \cup {PatInvalid} :
       /\ pattern' = pat
       /\ IF setup_error(root_kind, pat)
            THEN setup_return(dr, ac, dc, rec)
            ELSE scan_files(dr, ac, dc, rec, pat, gather(rec))
  /\ UNCHANGED <<tool, fsVars, force_delete, report, confirmation,
                 deleted_size, pruneVars, deleted_count, cfVars>>

\* what the operator can type at a prompt; Eof is the end of the input
Eof == <<"EOF">>

Answers ==
  {<<"y", "e", "s">>, <<" ", "Y", "E", "S">>, <<"y">>, <<"n", "o">>, <<>>, Eof}

\* input(...).strip().lower()
typed(answer) == lower(strip(answer))

\* faulty variant: 'y' confirms as well
dup_confirmed_by_y(answer) ==
  answer # Eof /\ typed(answer) \in {<<"y">>, <<"y", "e", "s">>}

\* confirmation != 'yes' cancels, and so does EOFError
dup_confirmed(answer) == answer # Eof /\ typed(answer) = <<"y", "e", "s">>

\* the prompt "Type 'yes' to confirm"
DupConfirm ==
  /\ tool = "dup" /\ pc = "confirm"
  /\ \E answer \in Answers :
       /\ confirmation' = IF answer = Eof THEN Eof ELSE typed(answer)
       /\ pc' = IF dup_confirmed(answer) THEN "deleting" ELSE "done"
  /\ UNCHANGED <<tool, fsVars, argVars, all_files, file_groups, files_to_remove,
                 idx, report, deleted_size, pruneVars, deleted_count, cfVars>>

\* what one iteration of the deletion loop does with a candidate
delete_outcome(f) ==
  IF f \notin files THEN "skipped"
  ELSE IF f \in undeletable THEN "error"
  ELSE "deleted"

delete_step(f, size, out) ==
  /\ report' = Append(report, out)
  /\ files' = IF out = "deleted" THEN files \ {f} ELSE files
  /\ deleted_count' = IF out = "deleted" THEN deleted_count + 1
                      ELSE deleted_count
  /\ deleted_size' = IF out = "deleted" THEN deleted_size + size
                     ELSE deleted_size

\* one iteration of the deletion loop; the summary line after the last
DupDelete ==
  /\ tool = "dup" /\ pc = "deleting"
  /\ delete_step(files_to_remove[idx][1], files_to_remove[idx][2],
                 delete_outcome(files_to_remove[idx][1]))
  /\ idx' = idx + 1
  /\ pc' = IF idx = Len(files_to_remove) THEN "done" ELSE "deleting"
  /\ UNCHANGED <<tool, dirs, parent, ctime, unlistable, unremovable, unreadable,
                 undeletable, scan_reverse, dirs0, files0, external, root_kind, argVars,
                 all_files, file_groups, files_to_remove, confirmation,
                 pruneVars, cfVars>>

\* another process removes a candidate while the deletion loop runs
ExternalRemove ==
  /\ tool = "dup" /\ pc = "deleting"
  /\ external = {}
  /\ \E k \in idx..Len(files_to_remove) :
       /\ files_to_remove[k][1] \in files
       /\ files' = files \ {files_to_remove[k][1]}
       /\ external' = {files_to_remove[k][1]}
  /\ UNCHANGED <<tool, pc, dirs, parent, ctime, unlistable, unremovable,
                 unreadable, undeletable, scan_reverse, dirs0, files0, root_kind, argVars,
                 dupVars, pruneVars, deleted_count, cfVars>>

\* print(f"Finished. {deleted_count} file(s) deleted ({...deleted_size} freed).")
final_report == [deleted |-> deleted_count, freed |-> deleted_size]

NextDup == DupScan \/ DupConfirm \/ DupDelete \/ ExternalRemove

SpecDup == InitDup /\ [][NextDup]_vars

\* -------------------------------------------------- the directory pruners
\* the elements of a set of integers in increasing order
SeqOfSet(S) == [k \in 1..Cardinality(S) |-> NthOf(S, k)]

\* the subdirectories of d that exist
ChildDirs(d) == {x \in dirs \ {0} : parent[x] = d}

RECURSIVE os_walk(_), walk_each(_)
\* faulty variant: topdown=True, a directory is yielded before the directories below it
os_walk_topdown(top) ==
  IF top \in unlistable THEN <<>>
  ELSE <<top>> \o walk_each(SeqOfSet(ChildDirs(top)))

\* os.walk(top, topdown=False): a directory is yielded after the directories
\* below it; one whose listing fails is skipped with all that is below it
os_walk(top) ==
  IF top \in unlistable THEN <<>>
  ELSE walk_each(SeqOfSet(ChildDirs(top))) \o <<top>>

walk_each(ds) ==
  IF ds = <<>> THEN <<>> ELSE os_walk(Head(ds)) \o walk_each(Tail(ds))

\* faulty variant: only the files of the directory are looked at
is_empty_of_files(d) == {f \in files : f[1] = d} = {}

\* not list(current_dir.iterdir())
is_empty(d) == Entries(d) = {}

\* os.rmdir succeeds on an empty directory the process may remove
rmdir_ok(d) == d \notin unremovable /\ Entries(d) = {}

\* send2trash succeeds on a directory the process may move
trash_ok(d) == d \notin unremovable

\* an except OSError branch: error_count += 1
count_error ==
  /\ error_count' = error_count + 1
  /\ UNCHANGED <<deleted_count, dirs, files>>

\* nothing to do for this directory
no_change == UNCHANGED <<deleted_count, error_count, dirs, files>>

\* dry run: the directory is reported and counted
would_delete ==
  /\ deleted_count' = deleted_count + 1
  /\ UNCHANGED <<error_count, dirs, files>>

\* current_dir.rmdir(), counted
rmdir(d) ==
  IF rmdir_ok(d)
    THEN /\ dirs' = dirs \ {d}
         /\ deleted_count' = deleted_count + 1
         /\ UNCHANGED <<error_count, files>>
    ELSE count_error

\* send2trash(str(current_dir)), counted: the directory is moved to the trash
\* with everything in it
send2trash(d) ==
  IF trash_ok(d)
    THEN /\ dirs' = dirs \ Subtree(d)
         /\ files' = {f \in files : f[1] \notin Subtree(d)}
         /\ deleted_count' = deleted_count + 1
         /\ UNCHANGED error_count
    ELSE count_error

attempt(d) == attempts' = [attempts EXCEPT ![d] = @ + 1]

\* the body of the loop of delete_empty_dirs_recursive
prune_body(d) ==
  IF d \notin dirs \/ d \in unlistable
    THEN count_error /\ UNCHANGED attempts
    ELSE IF is_empty(d)
           THEN IF dry_run THEN would_delete /\ UNCHANGED attempts
                ELSE rmdir(d) /\ attempt(d)
           ELSE no_change /\ UNCHANGED attempts

\* rmdir with --force, else the trash
remove_dir(d) ==
  /\ attempt(d)
  /\ IF force_delete THEN rmdir(d) ELSE send2trash(d)

\* the body of the loop of delete_empty_recursive
deep_body(d) ==
  IF d \notin dirs
    THEN no_change /\ UNCHANGED attempts
    ELSE IF d \in unlistable
           THEN count_error /\ UNCHANGED attempts
           ELSE IF is_empty(d) THEN remove_dir(d)
                ELSE no_change /\ UNCHANGED attempts

\* the final check of the root directory in delete_empty_recursive
root_check ==
  IF 0 \notin dirs
    THEN no_change /\ UNCHANGED attempts
    ELSE IF 0 \in unlistable
           THEN count_error /\ UNCHANGED attempts
           ELSE IF is_empty(0) THEN remove_dir(0)
                ELSE no_change /\ UNCHANGED attempts

\* the traversal starts: the walk is set up; after is where an empty walk ends
start_walk(after) ==
  /\ walk' = os_walk(0)
  /\ pos' = 1
  /\ pc' = IF os_walk(0) = <<>> THEN after ELSE "walk"

\* click.confirm(default=False, abort=True): y or yes goes on, all else aborts
click_confirmed(answer) ==
  answer # Eof /\ typed(answer) \in {<<"y">>, <<"y", "e", "s">>}

InitPrune ==
  /\ tool \in {"prune", "deepseek"}
  /\ pc = "start"
  /\ \E n \in 1..MaxDirs :
       /\ dirs = 0..(n - 1)
       /\ parent \in {p \in [1..(n - 1) -> 0..(n - 1)] : \A i \in 1..(n - 1) : p[i] < i}
  /\ files \in SUBSET {<<d, 1>> : d \in dirs}
  /\ ctime = [f \in files |-> 1]
  /\ root_kind = "dir"
  /\ OneFault(dirs, {})
  /\ 0 \notin unlistable
  /\ scan_reverse = FALSE
  /\ dirs0 = dirs /\ files0 = files /\ external = {}
  /\ NoArgs /\ NoDupLocals /\ NoCounts /\ NoWalk /\ NoClean
  /\ attempts = [d \in dirs |-> 0]

\* cli of clean_empty_dir.py up to the call of delete_empty_dirs_recursive
PruneCli ==
  /\ tool = "prune" /\ pc = "start"
  /\ \E dr \in BOOLEAN, yes \in BOOLEAN :
       /\ dry_run' = dr /\ auto_confirm' = yes
       /\ IF dr \/ yes THEN start_walk("done")
          ELSE pc' = "confirm" /\ UNCHANGED <<walk, pos>>
  /\ UNCHANGED <<tool, fsVars, detect_copy, recursive, force_delete, pattern,
                 dupVars, error_count, attempts, deleted_count, cfVars>>

\* the confirmation prompt of clean_empty_dir.py
PruneConfirm ==
  /\ tool = "prune" /\ pc = "confirm"
  /\ \E answer \in Answers :
       /\ confirmation' = IF answer = Eof THEN Eof ELSE typed(answer)
       /\ IF click_confirmed(answer) THEN start_walk("done")
          ELSE pc' = "aborted" /\ UNCHANGED <<walk, pos>>
  /\ UNCHANGED <<tool, fsVars, argVars, all_files, file_groups, files_to_remove,
                 idx, report, deleted_size, error_count, attempts,
                 deleted_count, cfVars>>

\* one iteration of the loop of delete_empty_dirs_recursive
PruneVisit ==
  /\ tool = "prune" /\ pc = "walk"
  /\ prune_body(walk[pos])
  /\ pos' = pos + 1
  /\ pc' = IF pos = Len(walk) THEN "done" ELSE "walk"
  /\ UNCHANGED <<tool, parent, ctime, unlistable, unremovable, unreadable,
                 undeletable, scan_reverse, dirs0, files0, external, root_kind, argVars,
                 dupVars, walk, cfVars>>

\* cli of clean_empty_dir_deepseek.py up to the call of delete_empty_recursive
DeepCli ==
  /\ tool = "deepseek" /\ pc = "start"
  /\ \E force \in BOOLEAN, yes \in BOOLEAN :
       /\ force_delete' = force /\ auto_confirm' = yes
       /\ IF yes THEN start_walk("root_check")
          ELSE pc' = "confirm" /\ UNCHANGED <<walk, pos>>
  /\ UNCHANGED <<tool, fsVars, dry_run, detect_copy, recursive, pattern,
                 dupVars, error_count, attempts, deleted_count, cfVars>>

\* the confirmation prompt of clean_empty_dir_deepseek.py
DeepConfirm ==
  /\ tool = "deepseek" /\ pc = "confirm"
  /\ \E answer \in Answers :
       /\ confirmation' = IF answer = Eof THEN Eof ELSE typed(answer)
       /\ IF click_confirmed(answer) THEN start_walk("root_check")
          ELSE pc' = "aborted" /\ UNCHANGED <<walk, pos>>
  /\ UNCHANGED <<tool, fsVars, argVars, all_files, file_groups, files_to_remove,
                 idx, report, deleted_size, error_count, attempts,
                 deleted_count, cfVars>>

\* one iteration of the loop of delete_empty_recursive
DeepVisit ==
  /\ tool = "deepseek" /\ pc = "walk"
  /\ deep_body(walk[pos])
  /\ pos' = pos + 1
  /\ pc' = IF pos = Len(walk) THEN "root_check" ELSE "walk"
  /\ UNCHANGED <<tool, parent, ctime, unlistable, unremovable, unreadable,
                 undeletable, scan_reverse, dirs0, files0, external, root_kind, argVars,
                 dupVars, walk, cfVars>>

\* the root directory is checked once more after the loop
DeepRootCheck ==
  /\ tool = "deepseek" /\ pc = "root_check"
  /\ root_check
  /\ pc' = "done"
  /\ UNCHANGED <<tool, parent, ctime, unlistable, unremovable, unreadable,
                 undeletable, scan_reverse, dirs0, files0, external, root_kind, argVars,
                 dupVars, walk, pos, cfVars>>

NextPrune ==
  PruneCli \/ PruneConfirm \/ PruneVisit
    \/ DeepCli \/ DeepConfirm \/ DeepVisit \/ DeepRootCheck

\* ------------------------------------------------------ the specifications
Init == InitDup \/ InitPrune

Next == NextDup \/ NextPrune

Spec == Init /\ [][Next]_vars

\* -------------------------------------------------------------- properties
Pruner == tool \in {"prune", "deepseek"}

\* the duplicate tool is past the preview
Scanned == tool = "dup" /\ pc # "start"

KeyOf(f) == GroupKeys[f, pattern, detect_copy]

\* the gathered files that share the key of f and whose metadata can be read
ReadableGroup(f) ==
  {g \in Range(all_files) : KeyOf(g) = KeyOf(f) /\ StatOK(g)}

\* the position at which a file was discovered
Discovered(f) == CHOOSE i \in 1..Len(all_files) : all_files[i] = f

\* k has the least creation time of R, and is the first discovered of those
Oldest(k, R) ==
  \A g \in R :
    \/ ctime[k] < ctime[g]
    \/ ctime[k] = ctime[g] /\ Discovered(k) <= Discovered(g)

TimesListed(f) ==
  Cardinality({i \in 1..Len(files_to_remove) : files_to_remove[i][1] = f})

\* C1: for every group of two or more readable files with one key, the file
\* kept is the oldest by creation time (the first discovered among ties), it
\* is not in files_to_remove, and every other member is in it exactly once
C1_KeeperIsOldest ==
  Scanned =>
    \A f \in Range(all_files) :
      Cardinality(ReadableGroup(f)) >= 2 =>
        \E g \in 1..Len(file_groups) :
          /\ Range(file_groups[g]) = ReadableGroup(f)
          /\ Oldest(keep_file(file_groups[g]), ReadableGroup(f))
          /\ TimesListed(keep_file(file_groups[g])) = 0
          /\ \A m \in ReadableGroup(f) \ {keep_file(file_groups[g])} :
               TimesListed(m) = 1

\* a group of three, the two oldest created at the same time, the newest
\* discovered first
C1_Witness ==
  /\ Scanned
  /\ \E g \in 1..Len(file_groups) :
       /\ Len(file_groups[g]) = 3
       /\ ctime[file_groups[g][1]] = ctime[file_groups[g][2]]
       /\ ctime[file_groups[g][2]] < ctime[file_groups[g][3]]
       /\ all_files[1] = file_groups[g][3]
  /\ Len(files_to_remove) = 2

\* C2: in dry-run mode the files and directories of the tree stay as they were
C2_DryRunKeepsTree == dry_run => (files = files0 /\ dirs = dirs0)

\* a dry run ended with something it would have deleted
C2_Witness ==
  /\ dry_run /\ pc = "done"
  /\ \/ tool = "dup" /\ files_to_remove # <<>>
     \/ tool = "prune" /\ deleted_count > 0

\* the answer typed at the prompt is one the tool takes for a yes
Affirmative ==
  IF tool = "dup" THEN confirmation = <<"y", "e", "s">>
  ELSE confirmation \in {<<"y">>, <<"y", "e", "s">>}

\* C3: after an answer that is not affirmative, or the end of the input,
\* nothing is deleted and the tree is as it was
C3_DeclineChangesNothing ==
  (confirmation # Unasked /\ ~Affirmative) =>
    /\ files = files0 /\ dirs = dirs0
    /\ deleted_count = 0 /\ report = <<>>
    /\ \A d \in DOMAIN attempts : attempts[d] = 0

\* the operator answered no to the deletion of listed candidates
C3_Witness ==
  /\ tool = "dup" /\ pc = "done"
  /\ confirmation = <<"n", "o">>
  /\ files_to_remove # <<>>

\* C4: a file is listed for deletion, or deleted, only if its group still has
\* two members after the members whose stat fails are dropped
C4_OnlyGroupsOfTwo ==
  Scanned =>
    /\ \A i \in 1..Len(files_to_remove) :
         Cardinality(ReadableGroup(files_to_remove[i][1])) >= 2
    /\ \A f \in files0 \ (files \cup external) :
         Cardinality(ReadableGroup(f)) >= 2

\* a group of two of which one cannot be read: a live run deletes nothing
C4_Witness ==
  /\ Scanned /\ pc = "done" /\ ~dry_run
  /\ \E f \in Range(all_files) :
       /\ ~StatOK(f)
       /\ Cardinality({g \in Range(all_files) : KeyOf(g) = KeyOf(f)}) = 2
  /\ files_to_remove = <<>>
  /\ files = files0

NoIoError == unlistable = {} /\ unremovable = {}

\* the traversal of a pruner has started
Walking == Pruner /\ pc \in {"walk", "root_check", "done"}

\* every directory comes after the directories below it, the root last
BottomUp(q) ==
  /\ \A i \in 1..Len(q) : \A j \in 1..Len(q) :
       q[i] \in Ancestors(q[j]) => j < i
  /\ q # <<>> => q[Len(q)] = 0

NoFilesBelow(d) == \A f \in files0 : f[1] \notin Subtree(d)

\* C5: without I/O errors the pruner visits every directory after the
\* directories below it and the root last, and one live pass removes every
\* directory whose subtree holds no file, leaving no empty directory
C5_CascadeInOnePass ==
  (Walking /\ NoIoError) =>
    /\ Range(walk) = dirs0
    /\ BottomUp(walk)
    /\ (pc = "done" /\ ~dry_run) =>
         /\ \A d \in dirs0 : NoFilesBelow(d) => d \notin dirs
         /\ \A d \in dirs : Entries(d) # {}

\* a chain a/b/c without files is removed whole by one live pass
C5_Witness ==
  /\ tool = "prune" /\ pc = "done" /\ ~dry_run /\ NoIoError
  /\ \E d \in dirs0 : Cardinality(Ancestors(d)) = 2
  /\ files0 = {}
  /\ dirs = {}
  /\ deleted_count = Cardinality(dirs0)

\* the file names s + m + e of the claim: a marker m after a stem s
Markers ==
  {<<>>, <<" ", "(", "1", ")">>, DotCopy, SpaceCopy,
   <<" ", "-", " ", "C", "o", "p", "y">>}

HasMarker(s) ==
  \/ search(PatDefault, s) # NoMatch
  \/ rfind(lower(s), DotCopy) # -1
  \/ rfind(lower(s), SpaceCopy) # -1

IsLetter(c) == c \notin {" ", ".", "(", ")", "-"} /\ ~IsDigit(c)

\* a final '.xyz' component that is not itself a copy literal, or none
IsExtension(e) ==
  \/ e = <<>>
  \/ /\ Len(e) >= 2 /\ e[1] = "."
     /\ \A i \in 2..Len(e) : IsLetter(e[i])
     /\ lower(e) # DotCopy

\* C6: clean_filename(s + m + e) = s + e for a stem s without markers and
\* without whitespace at its ends, a marker m and an extension e, with the
\* default pattern and copy detection enabled
C6_MarkerStripped ==
  (Len(cf_results) >= 1 /\ cf_pattern = PatDefault /\ cf_detect_copy) =>
    \A i \in 0..Len(cf_filename) : \A j \in i..Len(cf_filename) :
      ( /\ Slice(cf_filename, i, j) \in Markers
        /\ ~HasMarker(Slice(cf_filename, 0, i))
        /\ strip(Slice(cf_filename, 0, i)) = Slice(cf_filename, 0, i)
        /\ IsExtension(Slice(cf_filename, j, Len(cf_filename))) )
      => cf_results[1] =
           Slice(cf_filename, 0, i) \o Slice(cf_filename, j, Len(cf_filename))

\* C7: clean_filename(clean_filename(f)) = clean_filename(f)
C7_Idempotent == Len(cf_results) >= 2 => cf_results[2] = cf_results[1]

\* C8: a pruner removes no file, and neither removes nor tries to remove a
\* directory with a file anywhere below it
C8_PrunerKeepsFiles ==
  Pruner =>
    /\ files = files0
    /\ \A d \in dirs0 \ dirs : NoFilesBelow(d)
    /\ \A d \in dirs0 : attempts[d] > 0 => NoFilesBelow(d)

\* a run in trash mode removed directories from a tree that holds files
C8_Witness ==
  /\ tool = "deepseek" /\ ~force_delete /\ pc = "done"
  /\ files0 # {}
  /\ dirs # dirs0

\* the directories a live pass tried to remove and could not
FailedRemovals == {d \in DOMAIN attempts : attempts[d] > 0 /\ d \in dirs}

\* C9: a directory that fails to list or to be removed is counted as an error
\* and the loop goes on over the whole walk; in the deletion loop a missing
\* candidate is skipped, a failing unlink is reported, and every candidate is
\* attempted
C9_ErrorsCountedRestProcessed ==
  /\ (Pruner /\ pc = "done") =>
       /\ pos = Len(walk) + 1
       /\ error_count >= Cardinality(unlistable) + Cardinality(FailedRemovals)
  /\ (tool = "dup" /\ pc = "done" /\ report # <<>>) =>
       /\ Len(report) = Len(files_to_remove)
       /\ \A i \in 1..Len(report) :
            /\ report[i] = "error" <=> files_to_remove[i][1] \in undeletable
            /\ report[i] = "skipped" <=> files_to_remove[i][1] \in external

\* C10: within one run of a pruner the removal of a directory is attempted at
\* most once, so deleted_count + error_count is at most the number of
\* directories
C10_NoRetries ==
  Pruner =>
    /\ \A d \in DOMAIN attempts : attempts[d] <= 1
    /\ deleted_count + error_count <= Cardinality(dirs0)

\* the call was made with a path that is no directory or a pattern that does
\* not compile
SetupFailed ==
  /\ tool = "dup" /\ pc # "start"
  /\ (root_kind \in {"missing", "file"} \/ pattern = PatInvalid)

\* C11: on a setup error find_and_remove_duplicates reports it and returns:
\* nothing is gathered, no group or candidate is built, no prompt is shown and
\* no file is deleted
C11_SetupErrorStopsBeforeScan ==
  SetupFailed =>
    /\ pc = "setup_error"
    /\ all_files = <<>> /\ file_groups = <<>> /\ files_to_remove = <<>>
    /\ confirmation = Unasked
    /\ report = <<>> /\ deleted_count = 0
    /\ files = files0

\* a live auto-confirmed call on a tree with files, with a pattern that does
\* not compile
C11_Witness ==
  /\ tool = "dup" /\ pc = "setup_error"
  /\ pattern = PatInvalid /\ root_kind = "dir"
  /\ ~dry_run /\ auto_confirm
  /\ Cardinality(files0) >= 2

\* name ends with the given ending, letter case ignored
EndsWith(name, ending) ==
  /\ Len(name) >= Len(ending)
  /\ Slice(lower(name), Len(name) - Len(ending), Len(name)) = ending

\* name without its last n characters
DropLast(name, n) == Slice(name, 0, Len(name) - n)

\* nothing to remove in p: no marker, no match of the pattern, no outer space
Plain(p, pat) ==
  /\ ~HasMarker(p)
  /\ search(pat, p) = NoMatch
  /\ strip(p) = p

\* C12: with copy detection enabled a file name that ends with '.copy' or
\* ' - copy' in any letter case is detected: clean_filename changes it, and
\* returns the name without the ending when nothing else is to be removed
C12_CopyEndingDetected ==
  (Len(cf_results) >= 1 /\ cf_detect_copy) =>
    \A ending \in {DotCopy, SpaceCopy} :
      EndsWith(cf_filename, ending) =>
        /\ cf_results[1] # cf_filename
        /\ Plain(DropLast(cf_filename, Len(ending)), cf_pattern) =>
             cf_results[1] = DropLast(cf_filename, Len(ending))

\* the deletion loop has run to its end and the summary line is printed
Finished ==
  /\ tool = "dup" /\ pc = "done"
  /\ files_to_remove # <<>>
  /\ idx = Len(files_to_remove) + 1

\* the candidates for which the deletion loop reported the given outcome
WithOutcome(out) == {i \in 1..Len(report) : report[i] = out}

RECURSIVE SizeOf(_)
\* the sum of the recorded sizes of a set of candidates
SizeOf(I) ==
  IF I = {} THEN 0
  ELSE files_to_remove[Max(I)][2] + SizeOf(I \ {Max(I)})

\* the files the tool itself has unlinked
Unlinked == (files0 \ files) \ external

\* the count and the bytes of the summary line are those of the candidates
\* unlinked, and every candidate has exactly one outcome
ReportIsExact ==
  /\ final_report.deleted = Cardinality(Unlinked)
  /\ Unlinked = {files_to_remove[i][1] : i \in WithOutcome("deleted")}
  /\ final_report.freed = SizeOf(WithOutcome("deleted"))
  /\ Len(report) = Len(files_to_remove)
  /\ Cardinality(WithOutcome("deleted")) + Cardinality(WithOutcome("error"))
       + Cardinality(WithOutcome("skipped")) = Len(files_to_remove)

\* C13: after a confirmed live deletion the final report gives the
\* count deleted and the bytes freed, both exact, and also the count of the
\* candidates whose deletion failed with an error
C13_ReportCountsErrors ==
  Finished =>
    /\ ReportIsExact
    /\ WithOutcome("error") # {} =>
         /\ "errors" \in DOMAIN final_report
         /\ final_report["errors"] = Cardinality(WithOutcome("error"))

\* the stem the copy step of pass k starts from
BeforeCopy(k) == RegexStep(cf_results[k], cf_pattern)

\* the indices at which a copy literal starts in s, letter case ignored
DotCopyAt(s) == Occurrences(lower(s), DotCopy)

SpaceCopyAt(s) == Occurrences(lower(s), SpaceCopy)

\* s cut at the last index at which a copy literal starts, trimmed
CutAtLastCopy(s) ==
  IF DotCopyAt(s) \cup SpaceCopyAt(s) = {} THEN s
  ELSE strip(Slice(s, 0, Max(DotCopyAt(s) \cup SpaceCopyAt(s))))

\* C14: with copy detection enabled, the copy step of every pass cuts the
\* stem at the later of the last '.copy' and the last ' - copy' (letter case
\* ignored) and trims it; with one of them present it cuts at that one, with
\* none it leaves the stem as it is
C14_LaterCopyMarkerCut ==
  (tool = "loop" /\ cf_detect_copy) =>
    \A k \in 1..(Len(cf_results) - 1) :
      cf_results[k + 1] = CutAtLastCopy(BeforeCopy(k))

\* a pass whose copy step met both literals, ' - copy' after '.copy'
C14_Witness ==
  /\ tool = "loop" /\ cf_detect_copy /\ Len(cf_results) >= 2
  /\ DotCopyAt(BeforeCopy(1)) # {}
  /\ SpaceCopyAt(BeforeCopy(1)) # {}
  /\ Max(SpaceCopyAt(BeforeCopy(1))) > Max(DotCopyAt(BeforeCopy(1)))
  /\ cf_results[2] # <<>>

\* s holds a match of the pattern that is not empty
HasNonEmptyMatch(pat, s) ==
  CASE pat = PatDefault -> \E i \in 0..Len(s) : DefaultMatchEnd(s, i) # -1
    [] pat = PatCopyWord -> Occurrences(s, CopyWord) # {}
    [] OTHER -> s # <<>>

C17_LoopTerminates ==
  tool = "loop" =>
    /\ \A k \in 1..(Len(cf_results) - 1) :
         \/ Len(cf_results[k + 1]) < Len(cf_results[k])
         \/ /\ cf_results[k + 1] = cf_results[k]
            /\ k + 1 = Len(cf_results)
            /\ pc = "return"
    /\ Len(cf_results) - 1 <= Len(cf_results[1]) + 1

\* the loop was left after three passes or more, with a pattern that matches
\* the whole stem or with the default pattern
C17_Witness ==
  /\ tool = "loop" /\ pc = "return"
  /\ Len(cf_results) >= 4
  /\ cf_pattern \in {PatDefault, PatAll}

\* the normalized name of a file, letter case ignored
NormalName(f) == lower(clean_filename(Names[f[2]], pattern, detect_copy))

\* C15: two files are in one duplicate group only if they have the same
\* parent directory and equal normalized names, letter case ignored; so a
\* file listed for deletion, or deleted, lives in the directory of the file
\* kept in its place
C15_GroupWithinDirectory ==
  Scanned =>
    \A g \in 1..Len(file_groups) :
      \A m \in 1..Len(file_groups[g]) : \A n \in 1..Len(file_groups[g]) :
        /\ file_groups[g][m][1] = file_groups[g][n][1]
        /\ NormalName(file_groups[g][m]) = NormalName(file_groups[g][n])

\* the directories of the initial tree with no file anywhere below them
FileLess == {d \in dirs0 : NoFilesBelow(d)}

\* a run of delete_empty_dirs_recursive has returned without an I/O error
PruneReturned == tool = "prune" /\ pc = "done" /\ NoIoError

\* C18: on every tree, with no I/O error, the count a dry run of
\* delete_empty_dirs_recursive returns and the count a live run returns are
\* both the number of directories the live run deletes
C18_DryRunPredictsLive ==
  PruneReturned =>
    /\ ~dry_run => /\ deleted_count = Cardinality(dirs0 \ dirs)
                   /\ dirs0 \ dirs = FileLess
    /\ dry_run => deleted_count = Cardinality(FileLess)

====
